---- MODULE Spec2Model ----
(***************************************************************************)
(* A model of src/database.py: the queue.Queue / Worker thread pair, the   *)
(* sqlite3-backed log table (init_db, insert_log, fetch_logs) and the      *)
(* functools.lru_cache around expensive_computation.                       *)
(*                                                                         *)
(* The file binds the names Worker and expensive_computation twice (lines  *)
(* 102 and 466, lines 62 and 426).  The first Worker.run writes a log row  *)
(* after every task, the second one writes none.  Which class a program    *)
(* instantiates depends on how far the module body has executed, so the    *)
(* model keeps the class in the variable workerDef.                        *)
(***************************************************************************)
EXTENDS Integers, Sequences, FiniteSets, TLC

\* ------------------------------------------------------------- bounds
MaxTasks == 3          \* number of q.put calls explored
MaxAppends == 3        \* insert_log calls made by threads other than the Worker
MaxStorageErrors == 2  \* sqlite3 errors explored (two: the INFO and then the ERROR insert)
maxsize == 2           \* lru_cache(maxsize=...): 128 in the source, scaled down
MaxCalls == 4          \* number of expensive_computation calls explored

\* ------------------------------------------------------------- names
WorkerThread == "worker"
Appenders == {"a1", "a2"}
Threads == {WorkerThread} \cup Appenders
NoThread == "none"

\* What a task does when called at "func(*args)":
\*   "ok"    returns normally
\*   "raise" raises an Exception subclass
\*   "exit"  raises a BaseException that is no Exception (SystemExit, ...)
Outcomes == {"ok", "raise", "exit"}

\* threads that call expensive_computation
Callers == {"c1", "c2"}

\* arguments: one more integer than the cache holds, and a string, for which
\* "x ** 2 + x" raises TypeError
IntKeys == {[type |-> "int", v |-> n] : n \in 1..(maxsize + 1)}
StrKey == [type |-> "str", v |-> 0]
Keys == IntKeys \cup {StrKey}
NoKey == [type |-> "none", v |-> 0]
NoReturn == [key |-> NoKey, value |-> 0, hit |-> FALSE]

NoTask == [id |-> 0, outcome |-> "none"]
NoMsg == [kind |-> "none", ref |-> 0]
NoArgs == [level |-> "NONE", msg |-> NoMsg]
NoRow == [id |-> 0, level |-> "NONE", msg |-> NoMsg]

VARIABLES
    \* queue.Queue
    queue,            \* the deque of (func, args) items
    unfinished_tasks, \* Queue.unfinished_tasks
    is_shutdown,      \* the queue has been shut down
    lastPut,          \* how the last put call ended: "ok" or "QueueClosed"
    explicitStart,    \* start() has been called on the constructed Worker
    \* the Worker thread
    workerDef,        \* 1: class Worker of line 102, 2: class Worker of line 466
    pc,               \* position of the Worker thread in run()
    cur,              \* the item run() holds
    uncaught,         \* the exception that ended run(), "none" while it runs
    \* a thread that calls q.join()
    joinPc,
    \* the logs table of app.db
    rows,             \* committed rows
    seq,              \* sqlite_sequence value of the table (AUTOINCREMENT)
    writeLock,        \* thread whose connection holds the database write lock
    pending,          \* per thread: the row inserted and not yet committed
    ipc,              \* per thread: position inside insert_log
    iargs,            \* per thread: the (level, message) insert_log was called with
    fetched,          \* the list the last fetch_logs call returned
    \* history
    enqueued,         \* items in the order their put completed
    executed,         \* items in the order func(*args) was called
    marked,           \* items in the order task_done was called for them
    committed,        \* rows in the order their insert_log completed
    fetchedSnap,      \* value of committed when the last fetch_logs ran
    nAppends,         \* insert_log calls started by Appenders
    nErrors,          \* sqlite3 errors raised so far
    \* the lru_cache of expensive_computation
    cache,            \* the entries [key, result], least recently used first
    cpc,              \* per caller: position inside the cached call
    ckey,             \* per caller: the argument of the call
    cres,             \* per caller: the result its own computation returned
    returned,         \* per caller: what its last completed call returned
    hits,             \* cache_info().hits
    misses,           \* cache_info().misses
    \* history
    sawCached,        \* per caller: was the key cached when the call looked it up
    invocations,      \* per key: number of times the function body ran
    uses,             \* keys in the order the calls for them returned a value
    touches,          \* keys in the order the cache served a hit or stored an entry
    nCalls,           \* calls made so far
    raised            \* per caller: its last call ended with the exception of the body

queueVars == <<queue, unfinished_tasks, enqueued>>
workerVars == <<workerDef, pc, cur, uncaught, executed, marked>>
logVars == <<rows, seq, writeLock, pending, ipc, iargs, committed, nErrors>>
readVars == <<fetched, fetchedSnap>>
closeVars == <<is_shutdown, lastPut>>
cacheVars == <<cache, cpc, ckey, cres, returned, hits, misses, sawCached, invocations, uses, touches,
               nCalls, raised>>
vars == <<queueVars, closeVars, explicitStart, workerVars, logVars, readVars, joinPc, nAppends,
         cacheVars>>

\* ------------------------------------------------------------- queue.Queue

\* Queue._put: deque.append
QueuePut(q, item) == Append(q, item)

LifoGet(q) == [item |-> q[Len(q)], rest |-> SubSeq(q, 1, Len(q) - 1)]

\* a get that hands the oldest item out and leaves it on the queue
PeekGet(q) == [item |-> Head(q), rest |-> q]

\* Queue._get: deque.popleft
QueueGet(q) == [item |-> Head(q), rest |-> Tail(q)]

\* ------------------------------------------------------------- messages

\* f"Ran {func.__name__} with args {args}"
RanMsg(task) == [kind |-> "Ran", ref |-> task.id]

\* str(e) for the exception e the task raised
TaskExcMsg(task) == [kind |-> "TaskError", ref |-> task.id]

\* str(e) for a sqlite3 error raised by insert_log("INFO", ...)
StorageExcMsg == [kind |-> "StorageError", ref |-> 0]

\* ------------------------------------------------------------- the logs table

\* init_db: CREATE TABLE IF NOT EXISTS logs (id INTEGER PRIMARY KEY AUTOINCREMENT, ...)
init_db == [rows |-> {}, seq |-> 0]

ReusedRowId(s) == IF s = 0 THEN 1 ELSE s

\* AUTOINCREMENT: the rowid of a new row is one more than the largest ever used
NextRowId(s) == s + 1

NoLock(t) == TRUE

\* A connection may write only when no other connection holds the write lock
CanWrite(t) == writeLock = NoThread

RowIds(tbl) == {r.id : r \in tbl}

RECURSIVE ScanDesc(_)
ScanDesc(tbl) ==
    IF tbl = {} THEN <<>>
    ELSE LET r == CHOOSE x \in tbl : \A y \in tbl : y.id <= x.id
         IN <<r>> \o ScanDesc(tbl \ {r})

\* "SELECT ... FROM logs" without ORDER BY: SQLite walks the table b-tree,
\* which is keyed by rowid, from the smallest rowid to the largest.
RECURSIVE TableScan(_)
TableScan(tbl) ==
    IF tbl = {} THEN <<>>
    ELSE LET r == CHOOSE x \in tbl : \A y \in tbl : x.id <= y.id
         IN <<r>> \o TableScan(tbl \ {r})

\* the selected columns: timestamp, level, message (the id is not selected);
\* the timestamp is not modelled
Project(r) == [level |-> r.level, msg |-> r.msg]

\* fetch_logs
fetch_logs(tbl) == LET s == TableScan(tbl) IN [i \in 1..Len(s) |-> Project(s[i])]

\* ------------------------------------------------------------- initial state

Init ==
    /\ queue = <<>>
    /\ unfinished_tasks = 0
    /\ is_shutdown = FALSE
    /\ lastPut = "none"
    /\ explicitStart = FALSE
    /\ workerDef \in {1, 2}
    /\ pc = "unborn"
    /\ cur = NoTask
    /\ uncaught = "none"
    /\ joinPc = "idle"
    /\ rows = init_db.rows
    /\ seq = init_db.seq
    /\ writeLock = NoThread
    /\ pending = [t \in Threads |-> NoRow]
    /\ ipc = [t \in Threads |-> "none"]
    /\ iargs = [t \in Threads |-> NoArgs]
    /\ fetched = <<>>
    /\ enqueued = <<>>
    /\ executed = <<>>
    /\ marked = <<>>
    /\ committed = <<>>
    /\ fetchedSnap = <<>>
    /\ nAppends = 0
    /\ nErrors = 0
    /\ cache = <<>>
    /\ cpc = [c \in Callers |-> "idle"]
    /\ ckey = [c \in Callers |-> NoKey]
    /\ cres = [c \in Callers |-> 0]
    /\ returned = [c \in Callers |-> NoReturn]
    /\ hits = 0
    /\ misses = 0
    /\ sawCached = [c \in Callers |-> FALSE]
    /\ invocations = [k \in Keys |-> 0]
    /\ uses = <<>>
    /\ touches = <<>>
    /\ nCalls = 0
    /\ raised = [t \in Callers |-> FALSE]

\* ------------------------------------------------------------- producers

\* a queue built with maxsize=1: put waits until the Worker has taken the item
RoomForOne(q) == Len(q) < 1

\* queue.Queue() is built without maxsize: put finds room whatever the length
HasRoom(q) == TRUE

\* put counts the item as unfinished
CountPut(n) == n + 1

\* a task_done that counts two items as finished
CountDoneTwice(n) == n - 2

\* task_done counts one item as finished
CountDone(n) == n - 1

\* a queue that takes items although it was shut down
AcceptsAlways(closed) == TRUE

\* a queue that was shut down accepts no item
Accepts(closed) == ~closed

\* get on a queue that is shut down and empty signals QueueClosed
SignalsClosed(q, closed) == closed /\ q = <<>>

\* q.put((func, args)): the queue is unbounded, put never waits
Put(o) ==
    /\ Len(enqueued) < MaxTasks
    /\ Accepts(is_shutdown)
    /\ HasRoom(queue)
    /\ LET item == [id |-> Len(enqueued) + 1, outcome |-> o]
       IN /\ queue' = QueuePut(queue, item)
          /\ enqueued' = Append(enqueued, item)
    /\ unfinished_tasks' = CountPut(unfinished_tasks)
    /\ lastPut' = "ok"
    /\ joinPc' = IF joinPc = "returned" THEN "idle" ELSE joinPc
    /\ UNCHANGED <<cacheVars, is_shutdown, explicitStart, workerVars, logVars, readVars, nAppends>>

\* put on a queue that was shut down: QueueClosed reaches the caller
PutClosed ==
    /\ ~Accepts(is_shutdown)
    /\ lastPut' = "QueueClosed"
    /\ UNCHANGED <<cacheVars, queueVars, is_shutdown, explicitStart, workerVars, logVars, readVars,
                   joinPc, nAppends>>

\* shutdown(): no more items are accepted, the queued ones stay
Shutdown ==
    /\ ~is_shutdown
    /\ is_shutdown' = TRUE
    /\ UNCHANGED <<cacheVars, queueVars, lastPut, explicitStart, workerVars, logVars, readVars,
                   joinPc, nAppends>>

\* q.join() is called
JoinCall ==
    /\ joinPc \in {"idle", "returned"}
    /\ joinPc' = "waiting"
    /\ UNCHANGED <<cacheVars, closeVars, explicitStart, queueVars, workerVars, logVars,
                   readVars, nAppends>>

\* q.join() returns: all_tasks_done.wait() while unfinished_tasks
JoinReturn ==
    /\ joinPc = "waiting"
    /\ unfinished_tasks = 0
    /\ joinPc' = "returned"
    /\ UNCHANGED <<cacheVars, closeVars, explicitStart, queueVars, workerVars, logVars,
                   readVars, nAppends>>

\* ------------------------------------------------------------- insert_log

\* insert_log(level, message) is entered by thread t
EnterInsert(t, level, msg) ==
    /\ ipc' = [ipc EXCEPT ![t] = "execute"]
    /\ iargs' = [iargs EXCEPT ![t] = [level |-> level, msg |-> msg]]

\* cursor.execute("INSERT INTO logs ..."): takes the write lock and inserts
\* the row, with the next rowid, into the connection's open transaction
Execute(t) ==
    /\ ipc[t] = "execute"
    /\ CanWrite(t)
    /\ writeLock' = t
    /\ pending' = [pending EXCEPT ![t] =
                     [id |-> NextRowId(seq), level |-> iargs[t].level, msg |-> iargs[t].msg]]
    /\ ipc' = [ipc EXCEPT ![t] = "commit"]
    /\ UNCHANGED <<cacheVars, closeVars, explicitStart, queueVars, workerDef, uncaught, pc,
                   cur, executed, marked, rows, seq, iargs, committed, nErrors, readVars,
                   joinPc, nAppends>>

\* conn.commit(); conn.close(); return.  In the Worker both insert_log calls
\* are followed by self.q.task_done().
Commit(t) ==
    /\ ipc[t] = "commit"
    /\ rows' = rows \cup {pending[t]}
    /\ seq' = pending[t].id
    /\ committed' = Append(committed, pending[t])
    /\ writeLock' = NoThread
    /\ pending' = [pending EXCEPT ![t] = NoRow]
    /\ ipc' = [ipc EXCEPT ![t] = "none"]
    /\ iargs' = [iargs EXCEPT ![t] = NoArgs]
    /\ pc' = IF t = WorkerThread THEN "task_done" ELSE pc
    /\ UNCHANGED <<cacheVars, closeVars, explicitStart, queueVars, workerDef, uncaught, cur,
                   executed, marked, nErrors, readVars, joinPc, nAppends>>

\* connect, execute or commit raises a sqlite3 error (no such table, database
\* is locked, disk I/O error).  The connection is dropped, its transaction
\* rolled back.  insert_log has no handler: the error reaches the caller.
\*   Worker, inside "try" (line 115): handled at line 116, which calls
\*       insert_log("ERROR", str(e))
\*   Worker, inside "except" (line 118): nothing handles it, run() ends
StorageError(t) ==
    /\ ipc[t] \in {"execute", "commit"}
    /\ nErrors < MaxStorageErrors
    /\ nErrors' = nErrors + 1
    /\ writeLock' = IF writeLock = t THEN NoThread ELSE writeLock
    /\ pending' = [pending EXCEPT ![t] = NoRow]
    /\ IF t = WorkerThread /\ pc = "insert_info"
       THEN /\ pc' = "insert_error"
            /\ EnterInsert(t, "ERROR", StorageExcMsg)
       ELSE /\ pc' = IF t = WorkerThread THEN "dead" ELSE pc
            /\ ipc' = [ipc EXCEPT ![t] = "none"]
            /\ iargs' = [iargs EXCEPT ![t] = NoArgs]
    /\ uncaught' = IF t = WorkerThread /\ pc = "insert_error" THEN "StorageError" ELSE uncaught
    /\ UNCHANGED <<cacheVars, closeVars, explicitStart, queueVars, workerDef, cur, executed,
                   marked, rows, seq, committed, readVars, joinPc, nAppends>>

\* a thread other than the Worker calls insert_log
InsertLogCall(t, level) ==
    /\ t \in Appenders
    /\ ipc[t] = "none"
    /\ nAppends < MaxAppends
    /\ nAppends' = nAppends + 1
    /\ EnterInsert(t, level, [kind |-> "App", ref |-> nAppends + 1])
    /\ UNCHANGED <<cacheVars, closeVars, explicitStart, queueVars, workerVars, rows, seq,
                   writeLock, pending, committed, nErrors, readVars, joinPc>>

\* logs = fetch_logs(): one SELECT, read under the database's shared lock
FetchLogs ==
    /\ fetched' = fetch_logs(rows)
    /\ fetchedSnap' = committed
    /\ UNCHANGED <<cacheVars, closeVars, explicitStart, queueVars, workerVars, logVars, joinPc,
                   nAppends>>

\* ------------------------------------------------------------- Worker

\* Worker.__init__: super().__init__(); self.q = q; self.daemon = True; self.start()
WorkerInit ==
    /\ pc = "unborn"
    /\ pc' = "get"
    /\ UNCHANGED <<cacheVars, closeVars, explicitStart, queueVars, workerDef, uncaught, cur,
                   executed, marked, logVars, readVars, joinPc, nAppends>>

\* func, args = self.q.get(): waits while the queue is empty
Get ==
    /\ pc = "get"
    /\ queue # <<>>
    /\ cur' = QueueGet(queue).item
    /\ queue' = QueueGet(queue).rest
    /\ pc' = "func"
    /\ UNCHANGED <<cacheVars, closeVars, explicitStart, unfinished_tasks, enqueued, workerDef,
                   uncaught, executed, marked, logVars, readVars, joinPc, nAppends>>

\* func, args = self.q.get() signals QueueClosed: line 111 is outside the
\* "try" of line 112, so the exception leaves run() and the thread ends
GetClosed ==
    /\ pc = "get"
    /\ SignalsClosed(queue, is_shutdown)
    /\ pc' = "dead"
    /\ uncaught' = "QueueClosed"
    /\ UNCHANGED <<cacheVars, closeVars, explicitStart, queueVars, workerDef, cur, executed, marked,
                   logVars, readVars, joinPc, nAppends>>

\* worker.start() called on a constructed Worker: __init__ has started the
\* thread already, Thread.start raises RuntimeError and changes nothing
StartCall ==
    /\ pc # "unborn"
    /\ ~explicitStart
    /\ explicitStart' = TRUE
    /\ UNCHANGED <<cacheVars, closeVars, queueVars, workerVars, logVars, readVars, joinPc,
                   nAppends>>

\* Worker.run of line 109, lines 112-118: func(*args), then
\*   insert_log("INFO", ...) when it returned,
\*   insert_log("ERROR", str(e)) when it raised an Exception;
\* any other BaseException leaves run()
Func1 ==
    /\ pc = "func"
    /\ workerDef = 1
    /\ executed' = Append(executed, cur)
    /\ CASE cur.outcome = "ok" ->
              /\ pc' = "insert_info"
              /\ EnterInsert(WorkerThread, "INFO", RanMsg(cur))
              /\ UNCHANGED uncaught
         [] cur.outcome = "raise" ->
              /\ pc' = "insert_error"
              /\ EnterInsert(WorkerThread, "ERROR", TaskExcMsg(cur))
              /\ UNCHANGED uncaught
         [] OTHER ->
              /\ pc' = "dead"
              /\ uncaught' = "BaseException"
              /\ UNCHANGED <<ipc, iargs>>
    /\ UNCHANGED <<cacheVars, closeVars, explicitStart, queueVars, workerDef, cur, marked,
                   rows, seq, writeLock, pending, committed, nErrors, readVars, joinPc,
                   nAppends>>

\* Worker.run of line 473, lines 476-480: func(*args); an Exception is only
\* passed to logger.error; no row is written
Func2 ==
    /\ pc = "func"
    /\ workerDef = 2
    /\ executed' = Append(executed, cur)
    /\ pc' = IF cur.outcome \in {"ok", "raise"} THEN "task_done" ELSE "dead"
    /\ uncaught' = IF cur.outcome \in {"ok", "raise"} THEN uncaught ELSE "BaseException"
    /\ UNCHANGED <<cacheVars, closeVars, explicitStart, queueVars, workerDef, cur, marked,
                   logVars, readVars, joinPc, nAppends>>

\* self.q.task_done(), then the next iteration of "while True"
TaskDone ==
    /\ pc = "task_done"
    /\ unfinished_tasks' = CountDone(unfinished_tasks)
    /\ marked' = Append(marked, cur)
    /\ cur' = NoTask
    /\ pc' = "get"
    /\ UNCHANGED <<cacheVars, closeVars, explicitStart, queue, enqueued, workerDef, uncaught,
                   executed, logVars, readVars, joinPc, nAppends>>

\* ------------------------------------------------------------- lru_cache

\* the body of expensive_computation: x ** 2 + x
expensive_computation(k) == k.v * k.v + k.v

\* x ** 2 raises TypeError for a str
BodyRaises(k) == k.type # "int"

NeverCached(c, k) == FALSE

\* the key is in the cache dictionary
Cached(c, k) == \E i \in 1..Len(c) : c[i].key = k

MruResult(c, k) == c[Len(c)].result

\* the result stored for the key
ResultOf(c, k) == (CHOOSE e \in {c[i] : i \in 1..Len(c)} : e.key = k).result

KeepPlace(c, k) == c

\* a hit moves the entry to the most recently used end of the list
MoveToFront(c, k) ==
    LET e == CHOOSE x \in {c[i] : i \in 1..Len(c)} : x.key = k
    IN Append(SelectSeq(c, LAMBDA x : x.key # k), e)

\* after the computation: the key may have been stored by another thread in
\* the meantime, then nothing changes; a full cache drops its oldest entry
Insert(c, k, r) ==
    IF \E i \in 1..Len(c) : c[i].key = k THEN c
    ELSE IF Len(c) >= maxsize THEN Append(Tail(c), [key |-> k, result |-> r])
    ELSE Append(c, [key |-> k, result |-> r])

\* a cache that would keep an entry for a key whose computation raised
StoreFailure(c, k) == Insert(c, k, 0)

\* the function body raised: the exception passes through the wrapper before
\* it stores anything, the cache is left as it is
OnRaise(c, k) == c

CacheKeys(c) == [i \in 1..Len(c) |-> c[i].key]

\* expensive_computation(k) is called and the key is cached: the stored
\* result is returned, the function body does not run
CallHit(t, k) ==
    /\ cpc[t] = "idle"
    /\ nCalls < MaxCalls
    /\ Cached(cache, k)
    /\ nCalls' = nCalls + 1
    /\ sawCached' = [sawCached EXCEPT ![t] = \E i \in 1..Len(cache) : cache[i].key = k]
    /\ returned' = [returned EXCEPT ![t] =
                      [key |-> k, value |-> ResultOf(cache, k), hit |-> TRUE]]
    /\ cache' = MoveToFront(cache, k)
    /\ uses' = Append(uses, k)
    /\ touches' = Append(touches, k)
    /\ hits' = hits + 1
    /\ raised' = [raised EXCEPT ![t] = FALSE]
    /\ UNCHANGED <<cpc, ckey, cres, misses, invocations>>
    /\ UNCHANGED <<queueVars, closeVars, explicitStart, workerVars, logVars, readVars, joinPc,
                   nAppends>>

\* expensive_computation(k) is called and the key is not cached: the caller
\* goes on to run the function body, outside the cache's lock
CallMiss(t, k) ==
    /\ cpc[t] = "idle"
    /\ nCalls < MaxCalls
    /\ ~Cached(cache, k)
    /\ nCalls' = nCalls + 1
    /\ sawCached' = [sawCached EXCEPT ![t] = \E i \in 1..Len(cache) : cache[i].key = k]
    /\ cpc' = [cpc EXCEPT ![t] = "computing"]
    /\ ckey' = [ckey EXCEPT ![t] = k]
    /\ misses' = misses + 1
    /\ raised' = [raised EXCEPT ![t] = FALSE]
    /\ UNCHANGED <<cache, cres, returned, hits, invocations, uses, touches>>
    /\ UNCHANGED <<queueVars, closeVars, explicitStart, workerVars, logVars, readVars, joinPc,
                   nAppends>>

\* the function body runs and returns
Compute(t) ==
    /\ cpc[t] = "computing"
    /\ ~BodyRaises(ckey[t])
    /\ invocations' = [invocations EXCEPT ![ckey[t]] = @ + 1]
    /\ cres' = [cres EXCEPT ![t] = expensive_computation(ckey[t])]
    /\ cpc' = [cpc EXCEPT ![t] = "store"]
    /\ UNCHANGED <<cache, ckey, returned, hits, misses, sawCached, uses, touches, nCalls, raised>>
    /\ UNCHANGED <<queueVars, closeVars, explicitStart, workerVars, logVars, readVars, joinPc,
                   nAppends>>

\* the function body runs and raises: the exception reaches the caller,
\* nothing is stored
ComputeRaises(t) ==
    /\ cpc[t] = "computing"
    /\ BodyRaises(ckey[t])
    /\ invocations' = [invocations EXCEPT ![ckey[t]] = @ + 1]
    /\ cpc' = [cpc EXCEPT ![t] = "idle"]
    /\ ckey' = [ckey EXCEPT ![t] = NoKey]
    /\ returned' = [returned EXCEPT ![t] = NoReturn]
    /\ raised' = [raised EXCEPT ![t] = TRUE]
    /\ cache' = OnRaise(cache, ckey[t])
    /\ UNCHANGED <<cres, hits, misses, sawCached, uses, touches, nCalls>>
    /\ UNCHANGED <<queueVars, closeVars, explicitStart, workerVars, logVars, readVars, joinPc,
                   nAppends>>

\* the result is stored and returned to the caller
Store(t) ==
    /\ cpc[t] = "store"
    /\ cache' = Insert(cache, ckey[t], cres[t])
    /\ touches' = IF \E i \in 1..Len(cache) : cache[i].key = ckey[t]
                  THEN touches ELSE Append(touches, ckey[t])
    /\ uses' = Append(uses, ckey[t])
    /\ returned' = [returned EXCEPT ![t] =
                      [key |-> ckey[t], value |-> cres[t], hit |-> FALSE]]
    /\ cpc' = [cpc EXCEPT ![t] = "idle"]
    /\ ckey' = [ckey EXCEPT ![t] = NoKey]
    /\ cres' = [cres EXCEPT ![t] = 0]
    /\ UNCHANGED <<hits, misses, sawCached, invocations, nCalls, raised>>
    /\ UNCHANGED <<queueVars, closeVars, explicitStart, workerVars, logVars, readVars, joinPc,
                   nAppends>>

\* ------------------------------------------------------------- specification

\* The Worker, its queue and the rows it writes
Next ==
    \/ \E o \in Outcomes : Put(o)
    \/ PutClosed
    \/ Shutdown
    \/ StartCall
    \/ GetClosed
    \/ JoinCall
    \/ JoinReturn
    \/ WorkerInit
    \/ Get
    \/ Func1
    \/ Func2
    \/ TaskDone
    \/ Execute(WorkerThread)
    \/ Commit(WorkerThread)
    \/ StorageError(WorkerThread)

Spec == Init /\ [][Next]_vars

\* insert_log and fetch_logs called concurrently by several threads
LogInit == Init /\ workerDef = 1

LogNext ==
    \/ \E t \in Appenders, l \in {"INFO", "ERROR"} : InsertLogCall(t, l)
    \/ \E t \in Appenders : Execute(t)
    \/ \E t \in Appenders : Commit(t)
    \/ \E t \in Appenders : StorageError(t)
    \/ FetchLogs

LogSpec == LogInit /\ [][LogNext]_vars

\* expensive_computation called concurrently by several threads
CacheInit == Init /\ workerDef = 1

CacheNext ==
    \/ \E t \in Callers, k \in Keys : CallHit(t, k)
    \/ \E t \in Callers, k \in Keys : CallMiss(t, k)
    \/ \E t \in Callers : Compute(t)
    \/ \E t \in Callers : ComputeRaises(t)
    \/ \E t \in Callers : Store(t)

CacheSpec == CacheInit /\ [][CacheNext]_vars

\* ------------------------------------------------------------- properties

IsPrefix(s, t) == Len(s) <= Len(t) /\ \A i \in 1..Len(s) : s[i] = t[i]

NumRows(level) == Cardinality({r \in rows : r.level = level})

NumTasks(s, outcomes) == Cardinality({i \in 1..Len(s) : s[i].outcome \in outcomes})

RowsFor(level, msg) == {r \in rows : r.level = level /\ r.msg = msg}

\* C1: FIFO execution.  The tasks the Worker has called so far are, in the
\* order it called them, exactly the first tasks put on the queue: task
\* t(i+1) is never called before t(i), none is skipped, none is called twice.
C1_FifoExecution == IsPrefix(executed, enqueued)

\* two tasks have been called while a third one was still waiting
C1_Witness == Len(executed) >= 2 /\ queue # <<>>

\* C2: failure isolation.  When some task has raised and join() has returned,
\* every task put on the queue has run, the log holds one ERROR row per task
\* that raised and one INFO row per task that returned.
C2_FailureIsolation ==
    joinPc = "returned" /\ NumTasks(enqueued, {"raise", "exit"}) > 0 =>
        /\ executed = enqueued
        /\ NumRows("ERROR") = NumTasks(enqueued, {"raise", "exit"})
        /\ NumRows("INFO") = NumTasks(enqueued, {"ok"})

\* C3: join liveness.  Whenever the Worker is not in the middle of a task,
\* every task it took off the queue has been marked complete (so that
\* unfinished_tasks falls to 0 and join() returns), and join() returns only
\* when every task put on the queue has been executed and marked complete.
C3_JoinLiveness ==
    /\ pc \in {"unborn", "get", "dead"} => Len(marked) = Len(enqueued) - Len(queue)
    /\ joinPc = "returned" => marked = enqueued /\ executed = enqueued

\* C4: a failing insert_log never ends the Worker: no sqlite3 error leaves run().
C4_StorageFailureCaught == uncaught # "StorageError"

\* C5: success is logged before completion.  Every task that returned and
\* has been marked complete has exactly one INFO row, and as long as no task
\* raised the log holds no ERROR row.
C5_SuccessLogged ==
    /\ \A i \in 1..Len(marked) :
          marked[i].outcome = "ok" => Cardinality(RowsFor("INFO", RanMsg(marked[i]))) = 1
    /\ NumTasks(executed, {"raise", "exit"}) = 0 => NumRows("ERROR") = 0

\* C6: log sequence ids under concurrency.  In the order in which the
\* insert_log calls completed the ids strictly increase (so no two rows share
\* an id), and after M completed calls the table holds exactly those M rows.
C6_LogIdsIncrease ==
    /\ \A i, j \in 1..Len(committed) : i < j => committed[i].id < committed[j].id
    /\ rows = {committed[i] : i \in 1..Len(committed)}
    /\ Cardinality(rows) = Len(committed)
    /\ Cardinality(RowIds(rows)) = Len(committed)

\* two calls have completed in the reverse of the order they were made in,
\* while a third call is inside insert_log
C6_Witness ==
    /\ Len(committed) >= 2
    /\ committed[1].msg.ref > committed[2].msg.ref
    /\ \E t \in Appenders : ipc[t] # "none"

\* C7: fetch_logs returns the rows of every insert_log call that completed
\* before it, each once, in ascending id order (the order of completion);
\* a row inserted and not yet committed does not appear.
C7_FetchAllAscending ==
    /\ Len(fetched) = Len(fetchedSnap)
    /\ \A i \in 1..Len(fetched) : fetched[i] = Project(fetchedSnap[i])
    /\ \A i, j \in 1..Len(fetchedSnap) : i < j => fetchedSnap[i].id < fetchedSnap[j].id

\* fetch_logs returned two rows, in id order although the calls were made in
\* the other order, while another insert_log held an uncommitted row
C7_Witness ==
    /\ Len(fetched) >= 2
    /\ fetched[1].msg.ref > fetched[2].msg.ref
    /\ fetchedSnap = committed
    /\ \E t \in Appenders : ipc[t] = "commit"

Range(s) == {s[i] : i \in 1..Len(s)}

\* the distinct elements of s, in the order of their last occurrence
RECURSIVE Dedup(_)
Dedup(s) ==
    IF s = <<>> THEN <<>>
    ELSE LET x == s[Len(s)]
         IN Append(SelectSeq(Dedup(SubSeq(s, 1, Len(s) - 1)), LAMBDA y : y # x), x)

\* the last n elements of s
LastN(s, n) == IF Len(s) <= n THEN s ELSE SubSeq(s, Len(s) - n + 1, Len(s))

SumInvocations == LET RECURSIVE Sum(_)
                      Sum(S) == IF S = {} THEN 0
                                ELSE LET k == CHOOSE x \in S : TRUE
                                     IN invocations[k] + Sum(S \ {k})
                  IN Sum(Keys)

C10_HitDoesNotRecompute ==
    /\ \A t \in Callers : cpc[t] \in {"computing", "store"} => ~sawCached[t]
    /\ \A t \in Callers :
          returned[t].hit => returned[t].value = expensive_computation(returned[t].key)
    /\ SumInvocations <= misses
    /\ hits + misses = nCalls

\* a key was computed once and then served twice from the cache
C10_Witness ==
    \E k \in IntKeys, t \in Callers :
        /\ returned[t].hit /\ returned[t].key = k
        /\ invocations[k] = 1
        /\ Cardinality({i \in 1..Len(uses) : uses[i] = k}) >= 3

\* C11: shutdown drains, then the Worker stops.  Once the queue has been shut
\* down, a Worker that has left its loop left it because a dequeue observed
\* QueueClosed, and by then every task that was enqueued has been delivered
\* to it and executed: nothing is left on the queue.
C11_ShutdownDrains ==
    is_shutdown /\ pc = "dead" =>
        /\ uncaught = "QueueClosed"
        /\ queue = <<>>
        /\ executed = enqueued

\* C12: enqueue after shutdown is rejected.  Before shutdown no put ends with
\* QueueClosed; once the queue is shut down it stays shut down, no put is
\* accepted and the rejecting put is the one that can happen, nothing is ever
\* added to the queue or to the unfinished count, and the step in which a put
\* is rejected leaves the queue contents and the join accounting as they were.
C12_EnqueueAfterShutdownRejected ==
    /\ [](lastPut = "QueueClosed" => is_shutdown)
    /\ [](is_shutdown => ENABLED PutClosed /\ ~ENABLED (\E o \in Outcomes : Put(o)))
    /\ [](~is_shutdown => ~ENABLED PutClosed)
    /\ [][is_shutdown =>
            /\ is_shutdown'
            /\ enqueued' = enqueued
            /\ Len(queue') <= Len(queue)
            /\ unfinished_tasks' <= unfinished_tasks]_vars
    /\ [][lastPut' = "QueueClosed" /\ lastPut # "QueueClosed" =>
            /\ is_shutdown
            /\ queue' = queue
            /\ enqueued' = enqueued
            /\ unfinished_tasks' = unfinished_tasks
            /\ joinPc' = joinPc]_vars

\* a put was rejected on a queue that still holds unfinished tasks
C12_Witness ==
    /\ is_shutdown
    /\ lastPut = "QueueClosed"
    /\ queue # <<>>
    /\ unfinished_tasks > 0
    /\ Len(enqueued) < MaxTasks

\* C13: a failed computation is not cached.  A key whose computation raises
\* is never in the cache; a caller whose call ended with the exception has
\* received no value; the step in which the exception reaches the caller is
\* one invocation of the function body and leaves every cache entry as it
\* was; and every later call of that key misses and goes on to invoke the
\* body again.
C13_FailureNotCached ==
    /\ [](~Cached(cache, StrKey))
    /\ [](\A t \in Callers : raised[t] => cpc[t] = "idle" /\ returned[t] = NoReturn)
    /\ [][\A t \in Callers :
            raised'[t] /\ ~raised[t] =>
                /\ BodyRaises(ckey[t])
                /\ cache' = cache
                /\ invocations' = [invocations EXCEPT ![ckey[t]] = @ + 1]]_vars
    /\ [][\A t \in Callers :
            ckey'[t] = StrKey /\ ckey[t] # StrKey => cpc'[t] = "computing" /\ misses' = misses + 1]_vars
    /\ [](\A t \in Callers : cpc[t] = "computing" /\ ckey[t] = StrKey => ENABLED ComputeRaises(t))

\* a caller received the exception, called again with the same key and
\* received it again, while another key is cached
C13_Witness ==
    /\ \E t \in Callers : raised[t]
    /\ invocations[StrKey] >= 2
    /\ cache # <<>>

\* C14: exactly once, no retry.  The tasks enqueued so far are, in order and
\* each exactly once, the tasks the Worker has executed, then the task it
\* has dequeued and not yet run, then the tasks still on the queue: no task
\* is executed or dequeued twice, a task that failed is not put back, and a
\* task that was not dequeued is still on the queue.
C14_ExactlyOnce ==
    LET taken == IF pc = "func" THEN Append(executed, cur) ELSE executed
    IN /\ enqueued = taken \o queue
       /\ \A i, j \in 1..Len(executed) : executed[i].id = executed[j].id => i = j

\* a task that raised has been executed and marked complete, the Worker has
\* dequeued the next one and a third is still queued
C14_Witness ==
    /\ pc = "func"
    /\ \E i \in 1..Len(marked) : marked[i].outcome = "raise"
    /\ queue # <<>>

\* C15: producers are never blocked by the Worker.  Wherever the Worker is,
\* in func(*args), inside insert_log with the database write lock, or dead,
\* and however many items are queued, a put can complete at once: on an open
\* queue the item is accepted, on a queue that was shut down the put is
\* rejected.  (Put stops being enabled only at the bound on the number of
\* tasks of one behaviour.)
C15_ProducerNeverBlocked ==
    Len(enqueued) < MaxTasks =>
        /\ ~is_shutdown => \A o \in Outcomes : ENABLED Put(o)
        /\ is_shutdown => ENABLED PutClosed

\* the Worker holds the database write lock inside insert_log, an item is
\* waiting on the queue, and a producer can put another one
C15_Witness ==
    /\ pc = "insert_info"
    /\ writeLock = WorkerThread
    /\ queue # <<>>
    /\ ENABLED Put("ok")

\* C16: two-phase start.  A constructed Worker is inert: as long as start()
\* has not been called on it, it has dequeued no task and executed none.
C16_TwoPhaseStart ==
    ~explicitStart => cur = NoTask /\ executed = <<>>

\* C17: the log mirrors the queue.  With the Worker of line 102 as the only
\* appender, the rows in ascending id order describe the enqueued tasks in
\* order: the i-th row is about the i-th enqueued task, its level is INFO if
\* that task returned and ERROR if it raised, and whenever the Worker is
\* back at q.get() there is one row for each task it has marked complete.
C17_LogMirrorsQueue ==
    workerDef = 1 =>
        LET log == TableScan(rows)
        IN /\ Len(log) <= Len(enqueued)
           /\ \A i \in 1..Len(log) :
                 /\ i <= Len(enqueued)
                 /\ log[i].msg.ref = enqueued[i].id
                 /\ log[i].level = "INFO" <=> enqueued[i].outcome = "ok"
           /\ pc = "get" => Len(log) = Len(marked)

\* C18: join accounting is balanced.  The tasks marked complete are never more
\* than the tasks dequeued, which are never more than the tasks enqueued;
\* unfinished_tasks is the number of tasks enqueued and not yet marked and is
\* never negative; and when the Worker waits in q.get() on an empty queue,
\* unfinished_tasks is 0.
C18_JoinAccountingBalanced ==
    LET dequeued == Len(enqueued) - Len(queue)
    IN /\ Len(marked) <= dequeued
       /\ dequeued <= Len(enqueued)
       /\ unfinished_tasks >= 0
       /\ unfinished_tasks = Len(enqueued) - Len(marked)
       /\ pc = "get" /\ queue = <<>> => unfinished_tasks = 0

\* the Worker waits on an empty queue after it has marked two tasks, one of
\* which raised
C18_Witness ==
    /\ pc = "get"
    /\ queue = <<>>
    /\ Len(marked) >= 2
    /\ \E i \in 1..Len(marked) : marked[i].outcome = "raise"
    /\ unfinished_tasks = 0

====
